---- MODULE Spec2Model ----
(***************************************************************************)
(* Model of github.com/MegalLink/gomask, package masker                    *)
(* (masker/struct_masker.go).                                              *)
(*                                                                         *)
(* A Go string is modelled as a sequence of tokens.  A token stands for    *)
(* one or more characters that contain neither "," nor "-": the letters    *)
(* of a value ("a", "b", ...), a digit, a sign, a punctuation character,   *)
(* or a whole method name ("first").  strings.Split, strconv.Atoi and      *)
(* slicing are computed on these sequences as Go computes them on bytes.   *)
(***************************************************************************)
EXTENDS Integers, Sequences, FiniteSets, TLC

(***************************************************************************)
(* Bounds of the model.                                                    *)
(***************************************************************************)
MaxLen == 3
NumProcs == 2

(***************************************************************************)
(* Outcome of a Go expression that may panic: ok = FALSE is a run-time     *)
(* panic, and then s is not meaningful.                                    *)
(***************************************************************************)
Ok(s) == [ok |-> TRUE, s |-> s]
Panic == [ok |-> FALSE, s |-> <<>>]
Cat(r1, r2) == IF r1.ok /\ r2.ok THEN Ok(r1.s \o r2.s) ELSE Panic

RECURSIVE Rep(_, _)
Rep(c, n) == IF n <= 0 THEN <<>> ELSE c \o Rep(c, n - 1)

\* strings.Repeat: panics on a negative count.
Repeat(c, n) == IF n < 0 THEN Panic ELSE Ok(Rep(c, n))

\* The slice expression s[lo:hi]: panics unless 0 <= lo <= hi <= len(s).
Slice(s, lo, hi) ==
    IF 0 <= lo /\ lo <= hi /\ hi <= Len(s) THEN Ok(SubSeq(s, lo + 1, hi)) ELSE Panic

\* strings.Split(s, sep) for a one-character sep: every occurrence splits.
RECURSIVE Split(_, _)
Split(s, sep) ==
    IF \A i \in 1..Len(s) : s[i] # sep
    THEN <<s>>
    ELSE LET i == CHOOSE k \in 1..Len(s) :
                      s[k] = sep /\ \A j \in 1..(k - 1) : s[j] # sep
         IN  <<SubSeq(s, 1, i - 1)>> \o Split(SubSeq(s, i + 1, Len(s)), sep)

Digits == <<"0", "1", "2", "3", "4", "5", "6", "7", "8", "9">>
IsDigit(t) == \E d \in 1..Len(Digits) : Digits[d] = t
DigitVal(t) == (CHOOSE d \in 1..Len(Digits) : Digits[d] = t) - 1

RECURSIVE DecVal(_)
DecVal(s) == IF s = <<>> THEN 0
             ELSE 10 * DecVal(SubSeq(s, 1, Len(s) - 1)) + DigitVal(s[Len(s)])

\* strconv.Atoi: an optional sign, then one or more decimal digits.
\* err = TRUE stands for a non-nil error.  (Values stay far below 2^63.)
Atoi(s) ==
    LET signed == Len(s) > 0 /\ s[1] \in {"-", "+"}
        body   == IF signed THEN SubSeq(s, 2, Len(s)) ELSE s
    IN  IF Len(body) = 0 \/ \E i \in 1..Len(body) : ~IsDigit(body[i])
        THEN [err |-> TRUE, n |-> 0]
        ELSE [err |-> FALSE,
              n |-> IF signed /\ s[1] = "-" THEN 0 - DecVal(body) ELSE DecVal(body)]

(***************************************************************************)
(* The built-in strategies.                                                *)
(***************************************************************************)
MaskStringAll(s, maskChar) == Repeat(maskChar, Len(s))

\* regexp.Compile on the fragment the model uses: a pattern is a sequence
\* of literal characters and "." (any character), or it holds a "[" that
\* nothing closes (no pattern of the model holds "]"), a syntax error.
RegexCompiles(regex) == \A i \in 1..Len(regex) : regex[i] # "["

MatchesAt(s, regex, i) ==
    /\ i + Len(regex) - 1 <= Len(s)
    /\ \A k \in 1..Len(regex) : regex[k] = "." \/ regex[k] = s[i + k - 1]

\* ReplaceAllStringFunc: leftmost non-overlapping matches, each replaced by
\* maskChar repeated len(match) times.  An empty match is replaced by "".
RECURSIVE ReplaceFrom(_, _, _, _)
ReplaceFrom(s, regex, maskChar, i) ==
    IF i > Len(s) THEN <<>>
    ELSE IF Len(regex) > 0 /\ MatchesAt(s, regex, i)
         THEN Rep(maskChar, Len(regex)) \o ReplaceFrom(s, regex, maskChar, i + Len(regex))
         ELSE <<s[i]>> \o ReplaceFrom(s, regex, maskChar, i + 1)

MaskStringRegex(s, regex, maskChar) ==
    IF ~RegexCompiles(regex) THEN Ok(s) ELSE Ok(ReplaceFrom(s, regex, maskChar, 1))

\* Mutant of MaskStringFirst: the suffix kept starts one character early.
MaskStringFirstKeepsOne(s, n, maskChar) ==
    IF Len(s) <= n THEN Repeat(maskChar, Len(s))
    ELSE Cat(Repeat(maskChar, n), Slice(s, n - 1, Len(s)))

MaskStringFirst(s, n, maskChar) ==
    IF Len(s) <= n THEN Repeat(maskChar, Len(s))
    ELSE Cat(Repeat(maskChar, n), Slice(s, n, Len(s)))

MaskStringLast(s, n, maskChar) ==
    IF Len(s) <= n THEN Repeat(maskChar, Len(s))
    ELSE Cat(Slice(s, 0, Len(s) - n), Repeat(maskChar, n))

\* Mutant of MaskStringCorners: a string no longer than n+m is returned as
\* it is.
MaskStringCornersKeepShort(s, n, m, maskChar) ==
    IF Len(s) <= n + m THEN Ok(s)
    ELSE Cat(Cat(Repeat(maskChar, n), Slice(s, n, Len(s) - m)), Repeat(maskChar, m))

MaskStringCorners(s, n, m, maskChar) ==
    IF Len(s) <= n + m THEN Repeat(maskChar, Len(s))
    ELSE Cat(Cat(Repeat(maskChar, n), Slice(s, n, Len(s) - m)), Repeat(maskChar, m))

\* Mutant of MaskAllExceptCorners: a string no longer than n+m is masked
\* whole.
MaskAllExceptCornersFull(s, n, m, maskChar) ==
    IF Len(s) <= n + m THEN Repeat(maskChar, Len(s))
    ELSE Cat(Cat(Slice(s, 0, n), Repeat(maskChar, Len(s) - n - m)),
             Slice(s, Len(s) - m, Len(s)))

MaskAllExceptCorners(s, n, m, maskChar) ==
    IF Len(s) <= n + m THEN Ok(s)
    ELSE Cat(Cat(Slice(s, 0, n), Repeat(maskChar, Len(s) - n - m)),
             Slice(s, Len(s) - m, Len(s)))

MaskAll_Mask(value, maskChar, tags) == MaskStringAll(value, maskChar)

MaskRegex_Mask(value, maskChar, tags) ==
    IF Len(tags) > 1 THEN MaskStringRegex(value, tags[2], maskChar) ELSE Ok(value)

MaskFirst_Mask(value, maskChar, tags) ==
    IF Len(tags) > 1 /\ ~Atoi(tags[2]).err
    THEN MaskStringFirst(value, Atoi(tags[2]).n, maskChar)
    ELSE MaskStringFirst(value, 1, maskChar)

MaskLast_Mask(value, maskChar, tags) ==
    IF Len(tags) > 1 /\ ~Atoi(tags[2]).err
    THEN MaskStringLast(value, Atoi(tags[2]).n, maskChar)
    ELSE MaskStringLast(value, 1, maskChar)

\* Mutant of TwoBounds: options that do not parse give the bounds 0 and 0.
TwoBoundsOrNone(tags) ==
    LET parts == IF Len(tags) > 1 THEN Split(tags[2], "-") ELSE <<>>
    IN  IF Len(parts) = 2 /\ ~Atoi(parts[1]).err /\ ~Atoi(parts[2]).err
        THEN [first |-> Atoi(parts[1]).n, last |-> Atoi(parts[2]).n]
        ELSE [first |-> 0, last |-> 0]

\* The two bounds of corners and between: tags[1] split on "-" into exactly
\* two numeric tokens, else the defaults 1 and 1.
TwoBounds(tags) ==
    LET parts == IF Len(tags) > 1 THEN Split(tags[2], "-") ELSE <<>>
    IN  IF Len(parts) = 2 /\ ~Atoi(parts[1]).err /\ ~Atoi(parts[2]).err
        THEN [first |-> Atoi(parts[1]).n, last |-> Atoi(parts[2]).n]
        ELSE [first |-> 1, last |-> 1]

MaskCorners_Mask(value, maskChar, tags) ==
    MaskStringCorners(value, TwoBounds(tags).first, TwoBounds(tags).last, maskChar)

MaskBetween_Mask(value, maskChar, tags) ==
    MaskAllExceptCorners(value, TwoBounds(tags).first, TwoBounds(tags).last, maskChar)

(***************************************************************************)
(* A custom strategy: MaskCard of the tests.                               *)
(***************************************************************************)
CardVisible(tok, dflt) ==
    IF ~Atoi(tok).err /\ Atoi(tok).n > 0 THEN Atoi(tok).n ELSE dflt

MaskCard_Mask(value, maskChar, tags) ==
    IF Len(value) < 8
    THEN Cat(Repeat(maskChar, Len(value) - 1), Slice(value, Len(value) - 1, Len(value)))
    ELSE LET parts == IF Len(tags) > 1 THEN Split(tags[2], "-") ELSE <<>>
             firstVisible == IF Len(parts) = 2 THEN CardVisible(parts[1], 4) ELSE 4
             lastVisible  == IF Len(parts) = 2 THEN CardVisible(parts[2], 4) ELSE 4
         IN  IF firstVisible + lastVisible > Len(value) THEN Ok(value)
             ELSE Cat(Cat(Slice(value, 0, firstVisible),
                          Repeat(maskChar, Len(value) - firstVisible - lastVisible)),
                      Slice(value, Len(value) - lastVisible, Len(value)))

Builtins == {"MaskAll", "MaskRegex", "MaskFirst", "MaskLast", "MaskCorners", "MaskBetween"}
Maskers == Builtins \cup {"MaskCard"}

\* Masker.Mask, dispatched on the dynamic type of the strategy.
Mask(masker, value, maskChar, tags) ==
    CASE masker = "MaskAll"     -> MaskAll_Mask(value, maskChar, tags)
      [] masker = "MaskRegex"   -> MaskRegex_Mask(value, maskChar, tags)
      [] masker = "MaskFirst"   -> MaskFirst_Mask(value, maskChar, tags)
      [] masker = "MaskLast"    -> MaskLast_Mask(value, maskChar, tags)
      [] masker = "MaskCorners" -> MaskCorners_Mask(value, maskChar, tags)
      [] masker = "MaskBetween" -> MaskBetween_Mask(value, maskChar, tags)
      [] masker = "MaskCard"    -> MaskCard_Mask(value, maskChar, tags)

(***************************************************************************)
(* The registry: a Go map from name to strategy, as a function whose       *)
(* domain is the set of keys present.                                      *)
(***************************************************************************)
\* Mutant of MapPut: a key that is present keeps its value.
MapPutIfAbsent(reg, name, masker) ==
    [k \in DOMAIN reg \cup {name} |-> IF k \in DOMAIN reg THEN reg[k] ELSE masker]

MapPut(reg, name, masker) ==
    [k \in DOMAIN reg \cup {name} |-> IF k = name THEN masker ELSE reg[k]]

\* GetMasker: err = TRUE is the "masker %s not registered" error.
GetMasker(reg, name) ==
    IF name \in DOMAIN reg THEN [err |-> FALSE, masker |-> reg[name]]
    ELSE [err |-> TRUE, masker |-> "nil"]

EmptyMap == [k \in {} |-> "nil"]

NewMasker ==
    MapPut(MapPut(MapPut(MapPut(MapPut(MapPut(EmptyMap,
        <<"all">>, "MaskAll"), <<"regex">>, "MaskRegex"), <<"first">>, "MaskFirst"),
        <<"last">>, "MaskLast"), <<"corners">>, "MaskCorners"), <<"between">>, "MaskBetween")

(***************************************************************************)
(* Values as reflect sees them.  Every value is a record of one shape:     *)
(*   k  the reflect.Kind ("String", "Int", "Struct", "Ptr", "Invalid")     *)
(*   t  the type: a struct type name, "string", "int", or for a pointer    *)
(*      the type it points to                                              *)
(*   s  the characters of a string      n  the number of an int            *)
(*   a  the address a pointer holds, 0 for nil                             *)
(*   f  the field values of a struct, in declaration order                 *)
(* The heap is a sequence of values; address a is its a-th element.        *)
(***************************************************************************)
StringV(s)    == [k |-> "String",  t |-> "string", s |-> s,    n |-> 0, a |-> 0, f |-> <<>>]
IntV(n)       == [k |-> "Int",     t |-> "int",    s |-> <<>>, n |-> n, a |-> 0, f |-> <<>>]
PtrV(t, a)    == [k |-> "Ptr",     t |-> t,        s |-> <<>>, n |-> 0, a |-> a, f |-> <<>>]
StructV(t, f) == [k |-> "Struct",  t |-> t,        s |-> <<>>, n |-> 0, a |-> 0, f |-> f]
InvalidV      == [k |-> "Invalid", t |-> "",       s |-> <<>>, n |-> 0, a |-> 0, f |-> <<>>]

IsNil(v) == v.a = 0
\* reflect.Value.Elem of a pointer: the zero Value for a nil pointer.
Elem(h, v) == IF IsNil(v) THEN InvalidV ELSE h[v.a]

(***************************************************************************)
(* The struct types of the model, after the Level1/Level2/Level3 types of  *)
(* the benchmarks and the EspecialStruct of the tests.  dir is the mask    *)
(* tag and mc the maskTag tag of the string field S of every level.        *)
(***************************************************************************)
FieldD(name, kind, elem, mask, maskChar) ==
    [name |-> name, kind |-> kind, elem |-> elem, mask |-> mask, maskTag |-> maskChar]

StructTypes == {"Level1", "Level2", "Level3"}

Types(dir, mc) ==
    [T \in StructTypes |->
        CASE T = "Level3" ->
               << FieldD("S", "String", "string", dir, mc),
                  FieldD("Age", "Int", "int", <<"all">>, <<>>),
                  FieldD("PointerString", "Ptr", "string", <<"all">>, <<>>),
                  FieldD("EmptyTag", "String", "string", <<>>, <<>>) >>
          [] T = "Level2" ->
               << FieldD("S", "String", "string", dir, mc),
                  FieldD("Nested", "Struct", "Level3", <<>>, <<>>),
                  FieldD("Pointer", "Ptr", "Level3", <<>>, <<>>),
                  FieldD("Tagged", "Ptr", "Level3", <<"corners">>, <<>>) >>
          [] T = "Level1" ->
               << FieldD("S", "String", "string", dir, mc),
                  FieldD("Nested", "Struct", "Level2", <<>>, <<>>),
                  FieldD("Pointer", "Ptr", "Level2", <<>>, <<>>),
                  FieldD("TaggedValue", "Struct", "Level3", <<"all">>, <<>>) >>]

\* The zero value of a type, as reflect.New(t).Elem() yields it.
RECURSIVE Zero(_, _, _)
Zero(ty, kind, elem) ==
    CASE kind = "String" -> StringV(<<>>)
      [] kind = "Int"    -> IntV(0)
      [] kind = "Ptr"    -> PtrV(elem, 0)
      [] kind = "Struct" ->
           StructV(elem, [i \in 1..Len(ty[elem]) |->
                             Zero(ty, ty[elem][i].kind, ty[elem][i].elem)])

SetField(v, i, x) == [v EXCEPT !.f[i] = x]

\* Mutant of maskField: a string whose method is not registered is masked
\* whole instead of being returned as it is.
maskFieldFailClosed(reg, field, maskTag, maskCharTag) ==
    LET maskChar == IF maskCharTag = <<>> THEN <<"*">> ELSE maskCharTag
        tagParts == Split(maskTag, ",")
        got      == GetMasker(reg, tagParts[1])
        masked   == Mask(got.masker, field.s, maskChar, tagParts)
    IN  IF field.k = "String"
        THEN IF ~got.err
             THEN IF masked.ok THEN [ok |-> TRUE, v |-> StringV(masked.s)]
                  ELSE [ok |-> FALSE, v |-> field]
             ELSE [ok |-> TRUE, v |-> StringV(Rep(maskChar, Len(field.s)))]
        ELSE [ok |-> TRUE, v |-> field]

\* Mutant of maskField: the strategy is given the parts after the method
\* name only.
maskFieldOptionsOnly(reg, field, maskTag, maskCharTag) ==
    LET maskChar == IF maskCharTag = <<>> THEN <<"*">> ELSE maskCharTag
        tagParts == Split(maskTag, ",")
        got      == GetMasker(reg, tagParts[1])
        masked   == Mask(got.masker, field.s, maskChar, Tail(tagParts))
    IN  IF field.k = "String"
        THEN IF ~got.err
             THEN IF masked.ok THEN [ok |-> TRUE, v |-> StringV(masked.s)]
                  ELSE [ok |-> FALSE, v |-> field]
             ELSE [ok |-> TRUE, v |-> field]
        ELSE [ok |-> TRUE, v |-> field]

(***************************************************************************)
(* maskField (lines 127-147).  The outcome is [ok, v]: ok = FALSE when     *)
(* the strategy panicked.                                                  *)
(***************************************************************************)
maskField(reg, field, maskTag, maskCharTag) ==
    LET maskChar == IF maskCharTag = <<>> THEN <<"*">> ELSE maskCharTag
        tagParts == Split(maskTag, ",")
        method   == tagParts[1]
        got      == GetMasker(reg, method)
        masked   == Mask(got.masker, field.s, maskChar, tagParts)
    IN  IF field.k = "String"
        THEN IF ~got.err
             THEN IF masked.ok THEN [ok |-> TRUE, v |-> StringV(masked.s)]
                  ELSE [ok |-> FALSE, v |-> field]
             ELSE [ok |-> TRUE, v |-> field]
        ELSE [ok |-> TRUE, v |-> field]

\* Mutant of StoreNew: the masked struct is written over the cell the input
\* pointer refers to, and the input pointer is reused.
StoreInPlace(h, field, masked) ==
    [h |-> [h EXCEPT ![field.a] = masked], v |-> field]

\* Mutant of StoreNew: the new pointer is never stored in the field.
StoreNothing(h, field, masked) ==
    [h |-> Append(h, masked), v |-> PtrV(field.t, 0)]

\* Lines 111-113: reflect.New allocates a cell, the masked struct is stored
\* in it, and the new pointer is the field's value.
StoreNew(h, field, masked) ==
    [h |-> Append(h, masked), v |-> PtrV(field.t, Len(h) + 1)]

\* Line 108: the field is a struct, or a pointer whose Elem() is a struct.
IsNestedStruct(h, field) ==
    field.k = "Struct" \/ (field.k = "Ptr" /\ Elem(h, field).k = "Struct")

\* Line 106: the field goes to maskField when its mask tag is not empty.
HasDirective(d) == d.mask # <<>>

(***************************************************************************)
(* maskValue (lines 91-124).  The outcome is [ok, v, h]: the new struct    *)
(* and the heap after the call; ok = FALSE when the call panicked.         *)
(* maskFrom is the loop of lines 100-121 from field i on, new being the    *)
(* struct built so far.                                                    *)
(***************************************************************************)
RECURSIVE maskValue(_, _, _, _), maskFrom(_, _, _, _, _, _)
maskFrom(ty, reg, v, h, i, new) ==
    IF i > Len(v.f) THEN [ok |-> TRUE, v |-> new, h |-> h]
    ELSE
      LET field == v.f[i]
          d     == ty[v.t][i]
      IN  IF HasDirective(d)
          THEN LET r == maskField(reg, field, d.mask, d.maskTag)
               IN  IF r.ok THEN maskFrom(ty, reg, v, h, i + 1, SetField(new, i, r.v))
                   ELSE [ok |-> FALSE, v |-> new, h |-> h]
          ELSE IF IsNestedStruct(h, field)
          THEN IF field.k = "Ptr"
               THEN IF ~IsNil(field)
                    THEN LET r == maskValue(ty, reg, Elem(h, field), h)
                             st == StoreNew(r.h, field, r.v)
                         IN  IF r.ok
                             THEN maskFrom(ty, reg, v, st.h, i + 1, SetField(new, i, st.v))
                             ELSE [ok |-> FALSE, v |-> new, h |-> r.h]
                    ELSE maskFrom(ty, reg, v, h, i + 1, new)
               ELSE LET r == maskValue(ty, reg, field, h)
                    IN  IF r.ok
                        THEN maskFrom(ty, reg, v, r.h, i + 1, SetField(new, i, r.v))
                        ELSE [ok |-> FALSE, v |-> new, h |-> r.h]
          ELSE maskFrom(ty, reg, v, h, i + 1, SetField(new, i, field))

\* Lines 92-99: a pointer is dereferenced once; v.Type() panics on the zero
\* Value (the Elem of a nil pointer, or a nil interface) and v.NumField()
\* panics on every kind but Struct.
maskValue(ty, reg, v0, h) ==
    LET v == IF v0.k = "Ptr" THEN Elem(h, v0) ELSE v0
    IN  IF v.k # "Struct" THEN [ok |-> FALSE, v |-> InvalidV, h |-> h]
        ELSE maskFrom(ty, reg, v, h, 1, Zero(ty, "Struct", v.t))

\* Mutant of MaskStruct: a pointer argument gets a pointer to the new struct.
MaskStructKeepsPointer(ty, reg, v, h) ==
    LET r == maskValue(ty, reg, v, h)
    IN  IF r.ok /\ v.k = "Ptr"
        THEN [ok |-> TRUE, v |-> PtrV(v.t, Len(r.h) + 1), h |-> Append(r.h, r.v)]
        ELSE r

\* MaskStruct (lines 86-88): the Interface() of what maskValue returns.
MaskStruct(ty, reg, v, h) == maskValue(ty, reg, v, h)

(***************************************************************************)
(* The inputs of the model.                                                *)
(***************************************************************************)
Alphabet == <<"a", "b", "c", "d", "e", "f", "g", "h">>
Strings == {SubSeq(Alphabet, 1, k) : k \in 0..MaxLen}

\* The mask tags tried on the string field S.
Directives ==
    { <<"all">>, <<"nope">>, <<",", "1">>, <<"x">>, <<"x", ",", "2", "-", "1">>,
      <<"x", ",", "2">>,
      <<"regex">>, <<"regex", ",">>, <<"regex", ",", "b">>, <<"regex", ",", ".">>,
      <<"regex", ",", "[", "a">>, <<"regex", ",", "a", ",", "b">>,
      <<"first">>, <<"first", ",", "0">>, <<"first", ",", "2">>, <<"first", ",", "9">>,
      <<"first", ",", "-", "1">>, <<"first", ",", "z">>,
      <<"last">>, <<"last", ",", "2">>, <<"last", ",", "9">>, <<"last", ",", "-", "1">>,
      <<"corners">>, <<"corners", ",", "1", "-", "0">>, <<"corners", ",", "0", "-", "2">>,
      <<"corners", ",", "1">>, <<"corners", ",", "1", "-", "z">>,
      <<"corners", ",", "1", "-", "2", "-", "1">>, <<"corners", ",", "9", "-", "9">>,
      <<"between">>, <<"between", ",", "2", "-", "0">>, <<"between", ",", "0", "-", "1">>,
      <<"between", ",", "2", "-", "2">>, <<"between", ",", "z", "-", "1">> }

\* The (mask, maskTag) pairs tried: every directive with the default mask
\* character, and some with a maskTag of "#".
TagChoices ==
    { [dir |-> d, mc |-> <<>>] : d \in Directives } \cup
    { [dir |-> d, mc |-> <<"#">>] :
         d \in { <<"all">>, <<"nope">>, <<"x">>, <<"regex", ",", ".">>, <<"first", ",", "2">>,
                 <<"last">>, <<"corners">>, <<"between">> } }

\* Which pointer fields of the input are non-nil, by field name.
Presences == SUBSET {"Pointer", "Tagged", "PointerString"}

\* A value of struct type T on heap h: every string is s and every pointer
\* field named in present points to a cell of its own.  The outcome is [v, h].
RECURSIVE Build(_, _, _, _, _), BuildFrom(_, _, _, _, _, _, _)
BuildFrom(ty, T, s, present, h, i, acc) ==
    IF i > Len(ty[T]) THEN [v |-> StructV(T, acc), h |-> h]
    ELSE
      LET d == ty[T][i]
      IN  CASE d.kind = "String" ->
                 BuildFrom(ty, T, s, present, h, i + 1, Append(acc, StringV(s)))
            [] d.kind = "Int" ->
                 BuildFrom(ty, T, s, present, h, i + 1, Append(acc, IntV(30)))
            [] d.kind = "Struct" ->
                 LET b == Build(ty, d.elem, s, present, h)
                 IN  BuildFrom(ty, T, s, present, b.h, i + 1, Append(acc, b.v))
            [] d.kind = "Ptr" /\ d.name \notin present ->
                 BuildFrom(ty, T, s, present, h, i + 1, Append(acc, PtrV(d.elem, 0)))
            [] d.kind = "Ptr" /\ d.name \in present /\ d.elem = "string" ->
                 BuildFrom(ty, T, s, present, Append(h, StringV(s)), i + 1,
                           Append(acc, PtrV(d.elem, Len(h) + 1)))
            [] d.kind = "Ptr" /\ d.name \in present /\ d.elem # "string" ->
                 LET b == Build(ty, d.elem, s, present, h)
                 IN  BuildFrom(ty, T, s, present, Append(b.h, b.v), i + 1,
                               Append(acc, PtrV(d.elem, Len(b.h) + 1)))

Build(ty, T, s, present, h) == BuildFrom(ty, T, s, present, h, 1, <<>>)

\* The argument of MaskStruct: a Level1 by value or by pointer, or one of the
\* arguments that are no struct.  The outcome is [v, h].
RootForms == {"struct", "pointer", "string", "int", "nilpointer", "pointerToString", "nil"}

Root(ty, form, s, present) ==
    LET b == Build(ty, "Level1", s, present, <<>>)
    IN  CASE form = "struct"  -> b
          [] form = "pointer" -> [v |-> PtrV("Level1", Len(b.h) + 1), h |-> Append(b.h, b.v)]
          [] form = "string"  -> [v |-> StringV(s), h |-> <<>>]
          [] form = "int"     -> [v |-> IntV(30), h |-> <<>>]
          [] form = "nilpointer" -> [v |-> PtrV("Level1", 0), h |-> <<>>]
          [] form = "pointerToString" -> [v |-> PtrV("string", 1), h |-> <<StringV(s)>>]
          [] form = "nil"     -> [v |-> InvalidV, h |-> <<>>]

(***************************************************************************)
(* The state.                                                              *)
(*   maskerRegistry  the map of the MaskerManager                          *)
(*   lastRegistered  history: for each name ever given to RegisterMasker,  *)
(*                   the strategy of the latest such call                  *)
(*   tags            the mask and maskTag tags of field S of the types     *)
(*   input, heap0    the caller's argument and the heap as the caller      *)
(*                   built it                                              *)
(*   heap            the heap now                                          *)
(*   call            the latest MaskStruct call: done, ok (no panic), the  *)
(*                   value v returned, reg, the registry it read, and      *)
(*                   last, the value of lastRegistered at the call         *)
(***************************************************************************)
VARIABLES maskerRegistry, lastRegistered, tags, input, heap0, heap, call

(***************************************************************************)
(* The state of concurrent callers of RegisterMasker and GetMasker.        *)
(*   pc       where each goroutine is: "idle", or in RegisterMasker at     *)
(*            "Lock", "write", "Unlock", or in GetMasker at "RLock",       *)
(*            "read", "RUnlock"                                            *)
(*   op       the arguments of the call each goroutine is in               *)
(*   ret      what the GetMasker call of each goroutine returns            *)
(*   writer   maskerRegistryLock: the goroutine that holds the lock for    *)
(*            writing, 0 for none                                          *)
(*   readers  maskerRegistryLock: the goroutines that hold it for reading  *)
(*   job      the MaskStruct call each goroutine is in: its argument arg,  *)
(*            the registry reg0 at its entry, the registry each of its     *)
(*            GetMasker calls so far read (seen) and the value of          *)
(*            lastRegistered at each of them (lasts)                       *)
(***************************************************************************)
VARIABLES pc, op, ret, writer, readers, job

seqVars == <<tags, input, heap0, heap, call, job>>
lockVars == <<pc, op, ret, writer, readers>>
vars == <<maskerRegistry, lastRegistered, tags, input, heap0, heap, call,
          pc, op, ret, writer, readers, job>>

Procs == 1..NumProcs
NoOp == [name |-> <<>>, masker |-> "nil"]
NoRet == [err |-> FALSE, masker |-> "nil"]
NoJob == [arg |-> InvalidV, reg0 |-> EmptyMap, seen |-> <<>>, lasts |-> <<>>]
Idle ==
    /\ pc = [p \in Procs |-> "idle"]
    /\ op = [p \in Procs |-> NoOp]
    /\ ret = [p \in Procs |-> NoRet]
    /\ job = [p \in Procs |-> NoJob]
    /\ writer = 0
    /\ readers = {}

TypesNow == Types(tags.dir, tags.mc)

NoCall == [done |-> FALSE, ok |-> TRUE, v |-> InvalidV, reg |-> EmptyMap, last |-> EmptyMap]

\* The six strategies the documentation of MaskStruct lists, by name.
SixBuiltins ==
    (<<"all">> :> "MaskAll") @@ (<<"regex">> :> "MaskRegex") @@
    (<<"first">> :> "MaskFirst") @@ (<<"last">> :> "MaskLast") @@
    (<<"corners">> :> "MaskCorners") @@ (<<"between">> :> "MaskBetween")

Init ==
    /\ maskerRegistry = NewMasker
    /\ lastRegistered = SixBuiltins
    /\ \E tg \in TagChoices, form \in RootForms, s \in Strings, present \in Presences :
          /\ form \notin {"struct", "pointer"} =>
                 tg = [dir |-> <<"all">>, mc |-> <<>>] /\ present = {}
          /\ tags = tg
          /\ LET r == Root(Types(tg.dir, tg.mc), form, s, present)
             IN  input = r.v /\ heap0 = r.h /\ heap = r.h
    /\ call = NoCall
    /\ Idle

\* The strategies a caller registers, and the names it registers them under.
Registrations ==
    { <<<<"x">>, "MaskCard">>, <<<<"x">>, "MaskLast">>, <<<<"first">>, "MaskLast">> }

\* The history of registrations after RegisterMasker(name, masker).
Recorded(last, name, masker) == (name :> masker) @@ last

\* RegisterMasker (lines 24-28) by a single caller: the lock is free before
\* the call and free after it.
RegisterMasker(name, masker) ==
    /\ maskerRegistry' = MapPut(maskerRegistry, name, masker)
    /\ lastRegistered' = Recorded(lastRegistered, name, masker)
    /\ UNCHANGED <<seqVars, lockVars>>

\* A MaskStruct call on the input.  The cells of the result of an earlier
\* call are no longer referenced by the caller and have been reclaimed.
MaskStructCall ==
    LET h == SubSeq(heap, 1, Len(heap0))
        r == MaskStruct(TypesNow, maskerRegistry, input, h)
    IN  /\ heap' = r.h
        /\ call' = [done |-> TRUE, ok |-> r.ok, v |-> r.v, reg |-> maskerRegistry,
                     last |-> lastRegistered]
        /\ UNCHANGED <<maskerRegistry, lastRegistered, tags, input, heap0, job, lockVars>>

Next ==
    \/ \E rg \in Registrations : RegisterMasker(rg[1], rg[2])
    \/ MaskStructCall

Spec == Init /\ [][Next]_vars

(***************************************************************************)
(* Notions the properties use.                                             *)
(***************************************************************************)
\* The struct the argument denotes, when the argument is a struct or a
\* non-nil pointer to one.
IsRecordRoot == input.k = "Struct" \/ (input.k = "Ptr" /\ Elem(heap0, input).k = "Struct")
InputStruct == IF input.k = "Ptr" THEN Elem(heap0, input) ELSE input

Returned == call.done /\ call.ok

\* The addresses reachable from value v on heap h.
RECURSIVE Reach(_, _)
Reach(h, v) ==
    CASE v.k = "Struct" -> UNION { Reach(h, v.f[i]) : i \in 1..Len(v.f) }
      [] v.k = "Ptr" /\ ~IsNil(v) -> {v.a} \cup Reach(h, h[v.a])
      [] OTHER -> {}

\* The method a directive names, and whether the registry of the call has it.
Method(dir) == Split(dir, ",")[1]

\* C1: non-mutation.  After MaskStruct returns (or panics), every cell of
\* the heap the caller built, that is every value reachable from the
\* argument, holds the value it held before the call.
C1_NonMutation ==
    call.done =>
        /\ Len(heap) >= Len(heap0)
        /\ \A a \in 1..Len(heap0) : heap[a] = heap0[a]

\* C1 witness: a call on a pointer to a struct with non-nil nested pointers
\* has returned a masked struct and allocated cells.
C1_Witness ==
    /\ Returned /\ input.k = "Ptr"
    /\ Len(heap) > Len(heap0) + 1
    /\ call.v # InputStruct
    /\ \A a \in 1..Len(heap0) : heap[a] = heap0[a]

\* C2 (as claimed): the returned struct shares no storage with the
\* argument: no address reachable from the result is reachable from the
\* argument.
C2_IndependentCopy ==
    Returned => Reach(heap, call.v) \cap Reach(heap0, input) = {}

\* Same type, same fields, and nil exactly where the input is nil, at every
\* level.
RECURSIVE SameShape(_, _, _, _)
SameShape(hin, a, hout, b) ==
    /\ a.k = b.k
    /\ a.t = b.t
    /\ a.k = "Struct" =>
          /\ Len(a.f) = Len(b.f)
          /\ \A i \in 1..Len(a.f) : SameShape(hin, a.f[i], hout, b.f[i])
    /\ a.k = "Ptr" =>
          /\ IsNil(a) <=> IsNil(b)
          /\ (~IsNil(a) /\ ~IsNil(b)) => SameShape(hin, hin[a.a], hout, hout[b.a])

\* C3: shape preservation.  The struct returned has the type of the
\* argument's struct, its fields in declaration order with their kinds, and
\* at every level a pointer field is nil in the output exactly when it is
\* nil in the input.
C3_ShapePreserved ==
    (Returned /\ IsRecordRoot) =>
        /\ SameShape(heap0, InputStruct, heap, call.v)
        /\ \A i \in 1..Len(call.v.f) : call.v.f[i].k = TypesNow[call.v.t][i].kind

\* C3 witness: a returned struct with a nil and a non-nil struct pointer.
C3_Witness ==
    /\ Returned /\ IsRecordRoot
    /\ InputStruct.f[3].a # 0 /\ call.v.f[3].a # 0
    /\ heap[call.v.f[3].a].f[3].a # 0
    /\ InputStruct.f[2].f[4].a = 0 /\ call.v.f[2].f[4].a = 0

\* Every nested struct of vin, held by value or by non-nil pointer, tagged
\* or not, appears in vout masked: its tagged string fields hold what
\* maskField yields, and a pointer to it points to a cell the call allocated.
RECURSIVE NestedMasked(_, _)
NestedMasked(vin, vout) ==
    \A i \in 1..Len(vin.f) :
        LET d == TypesNow[vin.t][i]
        IN  /\ (d.kind = "String" /\ HasDirective(d)) =>
                  vout.f[i] = maskField(call.reg, vin.f[i], d.mask, d.maskTag).v
            /\ d.kind = "Struct" => NestedMasked(vin.f[i], vout.f[i])
            /\ (d.kind = "Ptr" /\ d.elem # "string" /\ ~IsNil(vin.f[i])) =>
                  /\ vout.f[i].a > Len(heap0)
                  /\ NestedMasked(heap0[vin.f[i].a], heap[vout.f[i].a])

\* C4 (as claimed): every present nested struct field, with or without a
\* mask directive of its own, is recursively masked into a new struct.
C4_NestedRecursivelyMasked ==
    (Returned /\ IsRecordRoot) => NestedMasked(InputStruct, call.v)

\* The fields of vin that MaskStruct is to copy as they are hold in vout the
\* value they hold in vin, at every level the traversal enters.
RECURSIVE IdentityCopied(_, _)
IdentityCopied(vin, vout) ==
    \A i \in 1..Len(vin.f) :
        LET d == TypesNow[vin.t][i]
            nested == d.kind = "Struct" \/ (d.kind = "Ptr" /\ d.elem # "string" /\ ~IsNil(vin.f[i]))
        IN  /\ (~nested /\ ~HasDirective(d)) => vout.f[i] = vin.f[i]
            /\ (HasDirective(d) /\ d.kind # "String") => vout.f[i] = vin.f[i]
            /\ (HasDirective(d) /\ d.kind = "String" /\ Method(d.mask) \notin DOMAIN call.reg) =>
                  vout.f[i] = vin.f[i]
            /\ (d.kind = "Struct" /\ ~HasDirective(d)) => IdentityCopied(vin.f[i], vout.f[i])
            /\ (d.kind = "Ptr" /\ nested /\ ~HasDirective(d)) =>
                  IdentityCopied(heap0[vin.f[i].a], heap[vout.f[i].a])

\* C5: identity copy.  In the struct returned, a field holds the value it
\* holds in the input when (a) it is no nested struct and has no mask tag
\* or an empty one, (b) it has a mask tag and is not a string, or (c) it is
\* a string whose mask tag names a method the registry does not hold; and a
\* call whose only lookups fail that way returns normally.
C5_IdentityCopy ==
    /\ (Returned /\ IsRecordRoot) => IdentityCopied(InputStruct, call.v)
    /\ (call.done /\ IsRecordRoot /\ Method(tags.dir) \notin DOMAIN call.reg) => call.ok

\* C5 witness: a call whose string fields name an unregistered method has
\* returned, the input holding a non-empty string and a pointer to a string.
C5_Witness ==
    /\ Returned /\ IsRecordRoot
    /\ Method(tags.dir) \notin DOMAIN call.reg
    /\ InputStruct.f[1].s # <<>>
    /\ call.v.f[1] = InputStruct.f[1]
    /\ InputStruct.f[4].f[3].a # 0
    /\ call.v.f[4].f[3] = InputStruct.f[4].f[3]

\* C6 (as claimed): with the six built-in strategies registered, MaskStruct
\* on a struct or a pointer to a struct never panics, whatever the mask tag
\* of its string fields and whatever their length.
C6_NeverPanics ==
    (call.done /\ IsRecordRoot /\ call.reg = SixBuiltins) => call.ok

\* C7 (as claimed): on an argument that is no struct and no pointer to a
\* struct, MaskStruct returns (an error value) and does not panic.
C7_ErrorNotPanic ==
    (call.done /\ ~IsRecordRoot) => call.ok

\* C8 (as claimed): the value returned has the kind of the argument, a
\* struct for a struct and a pointer for a pointer.
C8_RootKindPreserved ==
    Returned => call.v.k = input.k

\* C8 (amended): the value returned is a struct value of the argument's
\* struct type, for an argument given by value and for one given by pointer.
C8_ReturnsStructValue ==
    (Returned /\ IsRecordRoot) => (call.v.k = "Struct" /\ call.v.t = InputStruct.t)

\* C8 witness: a call on a pointer to a struct has returned a struct value.
C8_Witness ==
    Returned /\ input.k = "Ptr" /\ call.v.k = "Struct" /\ call.v.t = "Level1"

\* The names looked up.
ProbeNames ==
    { <<"all">>, <<"regex">>, <<"first">>, <<"last">>, <<"corners">>, <<"between">>,
      <<"x">>, <<"nope">>, <<>> }

\* C9: the registry is a map from name to strategy that starts as the six
\* built-ins.  GetMasker(name) returns the strategy of the latest
\* RegisterMasker(name, _) and fails exactly for the names never
\* registered, and a MaskStruct call masks a string field with the strategy
\* registered last under the method of its tag at the time of the call.
C9_RegistryIsMap ==
    /\ \A name \in ProbeNames :
          GetMasker(maskerRegistry, name) =
              IF name \in DOMAIN lastRegistered
              THEN [err |-> FALSE, masker |-> lastRegistered[name]]
              ELSE [err |-> TRUE, masker |-> "nil"]
    /\ (Returned /\ IsRecordRoot /\ Method(tags.dir) \in DOMAIN call.last) =>
          call.v.f[1].s =
              Mask(call.last[Method(tags.dir)], InputStruct.f[1].s,
                   IF tags.mc = <<>> THEN <<"*">> ELSE tags.mc, Split(tags.dir, ",")).s

\* C9 witness: "x" was registered as MaskCard, a call dispatched to it, and
\* "x" was then registered again as MaskLast, which GetMasker now returns;
\* the built-in "first" has been overwritten too.
C9_Witness ==
    /\ Returned /\ IsRecordRoot
    /\ tags.dir = <<"x">>
    /\ <<"x">> \in DOMAIN call.last /\ call.last[<<"x">>] = "MaskCard"
    /\ call.v.f[1].s # InputStruct.f[1].s
    /\ GetMasker(maskerRegistry, <<"x">>).masker = "MaskLast"
    /\ GetMasker(maskerRegistry, <<"first">>).masker = "MaskLast"
    /\ GetMasker(maskerRegistry, <<"nope">>).err

(***************************************************************************)
(* Concurrent RegisterMasker and GetMasker calls on one MaskerManager.     *)
(* sync.RWMutex: Lock returns when no goroutine holds the lock, RLock      *)
(* when no goroutine holds it for writing.                                 *)
(***************************************************************************)
\* Mutant of CanLock: the write lock is taken as a read lock is.
CanLockShared(p) == writer = 0

CanLock(p) == writer = 0 /\ readers = {}
CanRLock(p) == writer = 0

\* The names concurrent callers look up.
LookupNames == { <<"first">>, <<"x">> }

\* A caller enters RegisterMasker(name, masker) and reaches line 25.
CallRegister(p, name, masker) ==
    /\ pc[p] = "idle"
    /\ pc' = [pc EXCEPT ![p] = "Lock"]
    /\ op' = [op EXCEPT ![p] = [name |-> name, masker |-> masker]]
    /\ UNCHANGED <<maskerRegistry, lastRegistered, seqVars, ret, writer, readers>>

\* Line 25: m.maskerRegistryLock.Lock().
RegisterLock(p) ==
    /\ pc[p] = "Lock"
    /\ CanLock(p)
    /\ writer' = p
    /\ pc' = [pc EXCEPT ![p] = "write"]
    /\ UNCHANGED <<maskerRegistry, lastRegistered, seqVars, op, ret, readers>>

\* Line 27: m.maskerRegistry[name] = masker.
RegisterWrite(p) ==
    /\ pc[p] = "write"
    /\ maskerRegistry' = MapPut(maskerRegistry, op[p].name, op[p].masker)
    /\ lastRegistered' = Recorded(lastRegistered, op[p].name, op[p].masker)
    /\ pc' = [pc EXCEPT ![p] = "Unlock"]
    /\ UNCHANGED <<seqVars, op, ret, writer, readers>>

\* Line 26, run at the return: defer m.maskerRegistryLock.Unlock().
RegisterUnlock(p) ==
    /\ pc[p] = "Unlock"
    /\ writer' = 0
    /\ pc' = [pc EXCEPT ![p] = "idle"]
    /\ op' = [op EXCEPT ![p] = NoOp]
    /\ UNCHANGED <<maskerRegistry, lastRegistered, seqVars, ret, readers>>

\* A caller enters GetMasker(name) and reaches line 32.
CallGet(p, name) ==
    /\ pc[p] = "idle"
    /\ pc' = [pc EXCEPT ![p] = "RLock"]
    /\ op' = [op EXCEPT ![p] = [name |-> name, masker |-> "nil"]]
    /\ UNCHANGED <<maskerRegistry, lastRegistered, seqVars, ret, writer, readers>>

\* Line 32: m.maskerRegistryLock.RLock().
GetRLock(p) ==
    /\ pc[p] = "RLock"
    /\ CanRLock(p)
    /\ readers' = readers \cup {p}
    /\ pc' = [pc EXCEPT ![p] = "read"]
    /\ UNCHANGED <<maskerRegistry, lastRegistered, seqVars, op, ret, writer>>

\* Lines 35-39: the map is read and the return values are set, the error
\* of line 37 or the masker of line 39.
GetRead(p) ==
    /\ pc[p] = "read"
    /\ ret' = [ret EXCEPT ![p] = GetMasker(maskerRegistry, op[p].name)]
    /\ pc' = [pc EXCEPT ![p] = "RUnlock"]
    /\ UNCHANGED <<maskerRegistry, lastRegistered, seqVars, op, writer, readers>>

\* Line 33, run at the return: defer m.maskerRegistryLock.RUnlock().
GetRUnlock(p) ==
    /\ pc[p] = "RUnlock"
    /\ readers' = readers \ {p}
    /\ pc' = [pc EXCEPT ![p] = "idle"]
    /\ op' = [op EXCEPT ![p] = NoOp]
    /\ ret' = [ret EXCEPT ![p] = NoRet]
    /\ UNCHANGED <<maskerRegistry, lastRegistered, seqVars, writer>>

\* The steps of a call that has been entered.
Proceed(p) ==
    \/ RegisterLock(p)
    \/ RegisterWrite(p)
    \/ RegisterUnlock(p)
    \/ GetRLock(p)
    \/ GetRead(p)
    \/ GetRUnlock(p)

InitLock ==
    /\ maskerRegistry = NewMasker
    /\ lastRegistered = SixBuiltins
    /\ tags = [dir |-> <<"all">>, mc |-> <<>>]
    /\ input = InvalidV /\ heap0 = <<>> /\ heap = <<>>
    /\ call = NoCall
    /\ Idle

NextLock ==
    \/ \E p \in Procs, rg \in Registrations : CallRegister(p, rg[1], rg[2])
    \/ \E p \in Procs, name \in LookupNames : CallGet(p, name)
    \/ \E p \in Procs : Proceed(p)

\* A goroutine that can take a step of its call takes it: the Go scheduler
\* runs every runnable goroutine.  Nothing obliges a caller to call.
SpecLock == InitLock /\ [][NextLock]_vars /\ \A p \in Procs : WF_vars(Proceed(p))

InWrite(p) == pc[p] \in {"write", "Unlock"}
InRead(p) == pc[p] \in {"read", "RUnlock"}

\* C10: reader/writer exclusion.  No goroutine is between Lock and Unlock
\* of RegisterMasker while another is there too or is between RLock and
\* RUnlock of GetMasker, and a goroutine that holds the lock, for writing
\* or for reading, found or not found, releases it.
C10_ReaderWriterExclusion ==
    /\ [](\A p, q \in Procs : (p # q /\ InWrite(p)) => ~(InWrite(q) \/ InRead(q)))
    /\ \A p \in Procs : (InWrite(p) \/ InRead(p)) ~> (pc[p] = "idle")

\* C10 witness: two GetMasker calls hold the lock for reading at once, one
\* of them about to return the not-found error.
C10_Witness ==
    \E p, q \in Procs :
        /\ p # q
        /\ InRead(p) /\ InRead(q)
        /\ pc[p] = "RUnlock" /\ ret[p].err
        /\ readers = {p, q}

(***************************************************************************)
(* Concurrent MaskStruct and RegisterMasker calls on one MaskerManager.    *)
(* A MaskStruct call touches the registry in the GetMasker call of line    *)
(* 136 only, once for every string field with a mask tag it comes to.      *)
(* GetMasker holds the read lock from its RLock to its RUnlock, so the     *)
(* map read is one step that is taken while no goroutine holds the write   *)
(* lock.  What the call does between two lookups reads the argument and    *)
(* writes cells that only the call itself refers to until it returns.      *)
(***************************************************************************)
\* Mutant of LookupOf: the registry is read at the first lookup of the
\* call and that reading serves every later field.
LookupOnce(seen, c) == seen[1]

\* The registry the c-th GetMasker call of a MaskStruct call read.
LookupOf(seen, c) == seen[c]

(***************************************************************************)
(* maskValue (lines 91-124) of a call whose GetMasker calls so far read    *)
(* the registries seen, c of them being used up.  The outcome is           *)
(* [st, v, h, c]: st = "ok" with the new struct and the heap, "panic", or  *)
(* "lookup" when the call stands before a GetMasker call it has not made.  *)
(***************************************************************************)
RECURSIVE maskValueSeen(_, _, _, _, _), maskFromSeen(_, _, _, _, _, _, _)
maskFromSeen(ty, seen, c, v, h, i, new) ==
    IF i > Len(v.f) THEN [st |-> "ok", v |-> new, h |-> h, c |-> c]
    ELSE
      LET field == v.f[i]
          d     == ty[v.t][i]
      IN  IF HasDirective(d)
          THEN IF field.k # "String"
               THEN maskFromSeen(ty, seen, c, v, h, i + 1,
                        SetField(new, i, maskField(EmptyMap, field, d.mask, d.maskTag).v))
               ELSE IF c >= Len(seen)
               THEN [st |-> "lookup", v |-> new, h |-> h, c |-> c]
               ELSE LET r == maskField(LookupOf(seen, c + 1), field, d.mask, d.maskTag)
                    IN  IF r.ok
                        THEN maskFromSeen(ty, seen, c + 1, v, h, i + 1, SetField(new, i, r.v))
                        ELSE [st |-> "panic", v |-> new, h |-> h, c |-> c + 1]
          ELSE IF IsNestedStruct(h, field)
          THEN IF field.k = "Ptr"
               THEN IF ~IsNil(field)
                    THEN LET r == maskValueSeen(ty, seen, c, Elem(h, field), h)
                             st == StoreNew(r.h, field, r.v)
                         IN  IF r.st = "ok"
                             THEN maskFromSeen(ty, seen, r.c, v, st.h, i + 1,
                                               SetField(new, i, st.v))
                             ELSE [st |-> r.st, v |-> new, h |-> r.h, c |-> r.c]
                    ELSE maskFromSeen(ty, seen, c, v, h, i + 1, new)
               ELSE LET r == maskValueSeen(ty, seen, c, field, h)
                    IN  IF r.st = "ok"
                        THEN maskFromSeen(ty, seen, r.c, v, r.h, i + 1, SetField(new, i, r.v))
                        ELSE [st |-> r.st, v |-> new, h |-> r.h, c |-> r.c]
          ELSE maskFromSeen(ty, seen, c, v, h, i + 1, SetField(new, i, field))

maskValueSeen(ty, seen, c, v0, h) ==
    LET v == IF v0.k = "Ptr" THEN Elem(h, v0) ELSE v0
    IN  IF v.k # "Struct" THEN [st |-> "panic", v |-> InvalidV, h |-> h, c |-> c]
        ELSE maskFromSeen(ty, seen, c, v, h, 1, Zero(ty, "Struct", v.t))

\* Where the MaskStruct call of goroutine p stands, and with what.
Outcome(p) == maskValueSeen(TypesNow, job[p].seen, 0, job[p].arg, heap0)

\* The arguments concurrent callers pass, all of them parts of the caller's
\* struct: the Level2 it holds by value, the Level2 it points to, and its
\* Level3.
Args == {InputStruct.f[2], InputStruct.f[3], InputStruct.f[4]}

\* A caller enters MaskStruct(arg).
CallMaskStruct(p, arg) ==
    /\ pc[p] = "idle"
    /\ pc' = [pc EXCEPT ![p] = "mask"]
    /\ job' = [job EXCEPT ![p] = [arg |-> arg, reg0 |-> maskerRegistry, seen |-> <<>>,
                                   lasts |-> <<>>]]
    /\ UNCHANGED <<maskerRegistry, lastRegistered, tags, input, heap0, heap, call,
                   op, ret, writer, readers>>

\* Mutant of MaskLookup: a name that is looked up and not found is entered
\* in the registry with MaskAll.
MaskLookupMemo(p) ==
    /\ pc[p] = "mask"
    /\ Outcome(p).st = "lookup"
    /\ CanRLock(p)
    /\ job' = [job EXCEPT ![p].seen = Append(@, maskerRegistry),
                          ![p].lasts = Append(@, lastRegistered)]
    /\ maskerRegistry' = IF Method(tags.dir) \in DOMAIN maskerRegistry THEN maskerRegistry
                         ELSE MapPut(maskerRegistry, Method(tags.dir), "MaskAll")
    /\ UNCHANGED <<lastRegistered, tags, input, heap0, heap, call, lockVars>>

\* Line 136: the call of goroutine p stands before a GetMasker call and
\* makes it (lines 32-39): it reads the map while no goroutine holds the
\* write lock.
MaskLookup(p) ==
    /\ pc[p] = "mask"
    /\ Outcome(p).st = "lookup"
    /\ CanRLock(p)
    /\ job' = [job EXCEPT ![p].seen = Append(@, maskerRegistry),
                          ![p].lasts = Append(@, lastRegistered)]
    /\ UNCHANGED <<maskerRegistry, lastRegistered, tags, input, heap0, heap, call, lockVars>>

\* Line 87: the call of goroutine p has no lookup left and returns what
\* Outcome(p) holds, or it has panicked.
MaskReturn(p) ==
    /\ pc[p] = "mask"
    /\ Outcome(p).st # "lookup"
    /\ pc' = [pc EXCEPT ![p] = "idle"]
    /\ job' = [job EXCEPT ![p] = NoJob]
    /\ UNCHANGED <<maskerRegistry, lastRegistered, tags, input, heap0, heap, call,
                   op, ret, writer, readers>>

\* The struct concurrent callers mask: the tags of its string fields, the
\* string they hold, and its pointer fields, none of them nil.
RaceTags ==
    { [dir |-> <<"first">>, mc |-> <<>>], [dir |-> <<"x">>, mc |-> <<"#">>] }
RaceString == SubSeq(Alphabet, 1, MaxLen)
RacePresence == {"Pointer", "Tagged", "PointerString"}

\* Concurrent callers overwrite the built-in "first" with MaskLast.
RaceRegistrations == { rg \in Registrations : rg[1] = <<"first">> }

InitMask ==
    /\ maskerRegistry = NewMasker
    /\ lastRegistered = SixBuiltins
    /\ \E tg \in RaceTags :
          /\ tags = tg
          /\ LET r == Root(Types(tg.dir, tg.mc), "pointer", RaceString, RacePresence)
             IN  input = r.v /\ heap0 = r.h /\ heap = r.h
    /\ call = NoCall
    /\ Idle

NextMask ==
    \/ \E p \in Procs, rg \in RaceRegistrations : CallRegister(p, rg[1], rg[2])
    \/ \E p \in Procs : RegisterLock(p)
    \/ \E p \in Procs : RegisterWrite(p)
    \/ \E p \in Procs : RegisterUnlock(p)
    \/ \E p \in Procs, arg \in Args : CallMaskStruct(p, arg)
    \/ \E p \in Procs : MaskLookup(p)
    \/ \E p \in Procs : MaskReturn(p)

SpecMask == InitMask /\ [][NextMask]_vars

\* What the call of goroutine p returns when it runs alone on the registry
\* it found at its entry.
Alone(p) == MaskStruct(TypesNow, job[p].reg0, job[p].arg, heap0)

\* The call of goroutine p has made all its lookups.
Finished(p) == pc[p] = "mask" /\ Outcome(p).st # "lookup"

\* Every lookup of the call of goroutine p read the registry of its entry,
\* as it does when no RegisterMasker call writes during the call.
Quiet(p) == \A k \in 1..Len(job[p].seen) : job[p].seen[k] = job[p].reg0

\* C11: concurrent MaskStruct calls, on the same argument or on different
\* ones that share storage, each return what the call returns when it runs
\* alone, provided no RegisterMasker writes while the call runs; a call
\* leaves every cell of the caller's heap as it was, and no step of a
\* MaskStruct call changes the registry.
C11_ConcurrentMasking ==
    /\ [](\A p \in Procs :
            (Finished(p) /\ Quiet(p)) =>
                LET o == Outcome(p)
                    a == Alone(p)
                IN  /\ (o.st = "ok") = a.ok
                    /\ a.ok => (o.v = a.v /\ o.h = a.h)
                    /\ \A x \in 1..Len(heap0) : o.h[x] = heap0[x])
    /\ [](heap = heap0)
    /\ [][job' # job => (maskerRegistry' = maskerRegistry /\ heap' = heap)]_vars

\* C11 witness: two calls in progress at once, on different arguments, have
\* made all their lookups, three or more each, with no registration in
\* between, and stand before returning a masked struct.
C11_Witness ==
    \E p, q \in Procs :
        /\ p # q
        /\ pc[p] = "mask" /\ pc[q] = "mask"
        /\ Finished(p) /\ Finished(q) /\ Quiet(p) /\ Quiet(q)
        /\ job[p].arg # job[q].arg
        /\ Len(job[p].seen) >= 3 /\ Len(job[q].seen) >= 3
        /\ Outcome(p).st = "ok" /\ Outcome(q).st = "ok"
        /\ Outcome(p).v.f[1].s # heap0[input.a].f[1].s
        /\ maskerRegistry # NewMasker

(***************************************************************************)
(* Notions the properties of the strategies use.                           *)
(***************************************************************************)
\* The string field S of the argument's struct and of the struct returned,
\* and the mask character of S.
InS == InputStruct.f[1].s
OutS == call.v.f[1].s
MaskCharNow == IF tags.mc = <<>> THEN <<"*">> ELSE tags.mc

\* The method of the tag of S is registered with the built-in of its name.
Builtin ==
    /\ Method(tags.dir) \in DOMAIN SixBuiltins
    /\ Method(tags.dir) \in DOMAIN call.last
    /\ call.last[Method(tags.dir)] = SixBuiltins[Method(tags.dir)]

\* What the strategies are to yield, position by position, c being the one
\* mask character.
ExpFirst(s, n, c) == [i \in 1..Len(s) |-> IF i <= n THEN c ELSE s[i]]
ExpLast(s, n, c) == [i \in 1..Len(s) |-> IF i > Len(s) - n THEN c ELSE s[i]]
ExpCorners(s, n, m, c) ==
    [i \in 1..Len(s) |-> IF i <= n \/ i > Len(s) - m THEN c ELSE s[i]]
ExpBetween(s, n, m, c) ==
    [i \in 1..Len(s) |-> IF i > n /\ i <= Len(s) - m THEN c ELSE s[i]]
ExpBetweenFull(s, n, m, c) ==
    IF Len(s) <= n + m THEN [i \in 1..Len(s) |-> c] ELSE ExpBetween(s, n, m, c)

Expected(method, s, n, m, c) ==
    CASE method = <<"first">>   -> ExpFirst(s, n, c)
      [] method = <<"last">>    -> ExpLast(s, n, c)
      [] method = <<"corners">> -> ExpCorners(s, n, m, c)
      [] method = <<"between">> -> ExpBetween(s, n, m, c)

\* The call was on a struct whose S names the custom method "x".
CustomCall ==
    /\ Returned /\ IsRecordRoot
    /\ Method(tags.dir) = <<"x">>
    /\ <<"x">> \in DOMAIN call.last

\* C12 (as claimed): custom dispatch.  The strategy registered under "x" is
\* given the value of the field, its mask character and the option tokens
\* that follow "x" in the tag, without the method name, and what it
\* returns is the field of the struct returned.
C12_OptionsOnly ==
    CustomCall =>
        LET m == Mask(call.last[<<"x">>], InS, MaskCharNow, Tail(Split(tags.dir, ",")))
        IN  m.ok /\ OutS = m.s

\* C12 (amended): custom dispatch.  The strategy registered under "x" is
\* given the value of the field, its mask character and all the
\* comma-separated parts of the tag, the method name "x" first and the
\* option tokens after it, and what it returns is the field of the struct
\* returned, at the top and in the nested struct.
C12_PartsWithMethod ==
    CustomCall =>
        LET parts == Split(tags.dir, ",")
            m == Mask(call.last[<<"x">>], InS, MaskCharNow, parts)
        IN  /\ parts[1] = <<"x">>
            /\ m.ok
            /\ OutS = m.s
            /\ call.v.f[2].f[1].s = m.s

\* C12 witness: "x" is registered as MaskLast, the tag is "x,2", and the
\* strategy has read the option "2" at index 1 of what it was given.
C12_Witness ==
    /\ CustomCall
    /\ tags.dir = <<"x", ",", "2">>
    /\ call.last[<<"x">>] = "MaskLast"
    /\ InS = <<"a", "b", "c">>
    /\ OutS = <<"a", "*", "*">>

\* A directive split on its first comma only.
SplitFirst(d) ==
    IF \A i \in 1..Len(d) : d[i] # "," THEN <<d>>
    ELSE LET i == CHOOSE k \in 1..Len(d) : d[k] = "," /\ \A j \in 1..(k - 1) : d[j] # ","
         IN  <<SubSeq(d, 1, i - 1), SubSeq(d, i + 1, Len(d))>>

\* C13 (as claimed): the tag is split on its first comma only, and the
\* strategy is given all the text after it, further commas included, as one
\* option string.
C13_SplitOnFirstComma ==
    (Returned /\ IsRecordRoot /\ Method(tags.dir) \in DOMAIN call.last) =>
        LET m == Mask(call.last[Method(tags.dir)], InS, MaskCharNow, SplitFirst(tags.dir))
        IN  m.ok /\ OutS = m.s

\* The tags of first and last whose option is absent or not numeric, and the
\* tags of corners and between whose option is absent or does not split on
\* "-" into exactly two numeric tokens.
DefaultedOne == { <<"first">>, <<"first", ",", "z">>, <<"last">> }
DefaultedTwo ==
    { <<"corners">>, <<"corners", ",", "1">>, <<"corners", ",", "1", "-", "z">>,
      <<"corners", ",", "1", "-", "2", "-", "1">>,
      <<"between">>, <<"between", ",", "z", "-", "1">> }

\* A call on a struct whose S has one of these tags, the built-in registered.
DefaultedCall ==
    call.done /\ IsRecordRoot /\ Builtin /\ tags.dir \in DefaultedOne \cup DefaultedTwo

\* C14 (as claimed): with malformed options the strategy runs with its
\* default bounds, n = 1 or n = m = 1; the call does not fail and a string
\* that is not empty does not stay unmasked.
C14_DefaultsAndMasked ==
    DefaultedCall =>
        /\ call.ok
        /\ OutS = Expected(Method(tags.dir), InS, 1, 1, MaskCharNow[1])
        /\ InS # <<>> => OutS # InS

\* C14 (amended): with malformed options the strategy runs with its default
\* bounds, n = 1 or n = m = 1; the call does not fail, and a string that is
\* not empty does not stay unmasked, except that between leaves a string of
\* one or two characters as it is.
C14_MalformedDefaults ==
    DefaultedCall =>
        /\ call.ok
        /\ OutS = Expected(Method(tags.dir), InS, 1, 1, MaskCharNow[1])
        /\ (InS # <<>> /\ ~(Method(tags.dir) = <<"between">> /\ Len(InS) <= 2)) => OutS # InS

\* C14 witness: the option "1-2-1" of corners has three tokens, and the
\* first and the last character are masked.
C14_Witness ==
    /\ DefaultedCall /\ call.ok
    /\ tags.dir = <<"corners", ",", "1", "-", "2", "-", "1">>
    /\ InS = <<"a", "b", "c">>
    /\ OutS = <<"*", "b", "*">>

\* The bounds the well-formed tags of the model denote.
ParsedBounds ==
    (<<"first", ",", "0">> :> <<0, 0>>) @@ (<<"first", ",", "2">> :> <<2, 0>>) @@
    (<<"first", ",", "9">> :> <<9, 0>>) @@
    (<<"last", ",", "2">> :> <<2, 0>>) @@ (<<"last", ",", "9">> :> <<9, 0>>) @@
    (<<"corners", ",", "1", "-", "0">> :> <<1, 0>>) @@
    (<<"corners", ",", "0", "-", "2">> :> <<0, 2>>) @@
    (<<"corners", ",", "9", "-", "9">> :> <<9, 9>>) @@
    (<<"between", ",", "2", "-", "0">> :> <<2, 0>>) @@
    (<<"between", ",", "0", "-", "1">> :> <<0, 1>>) @@
    (<<"between", ",", "2", "-", "2">> :> <<2, 2>>)

\* A call on a struct whose S has a well-formed tag of one of the methods.
ParsedCall(methods) ==
    /\ call.done /\ IsRecordRoot /\ Builtin
    /\ tags.dir \in DOMAIN ParsedBounds
    /\ Method(tags.dir) \in methods

\* C15: first, last and corners.  For every string s, mask character c and
\* bounds n, m >= 0, MaskStringFirst yields c n times and then s[n:],
\* MaskStringLast s[:len(s)-n] and then c n times, MaskStringCorners c n
\* times, s[n:len(s)-m] and c m times, and c len(s) times when len(s) <= n
\* or len(s) <= n+m; the result has the length of s; and a field whose tag
\* gives the bounds holds that result after MaskStruct.
C15_FirstLastCorners ==
    /\ (call.done /\ IsRecordRoot) =>
          \A n, m \in 0..(MaxLen + 1) :
              LET c == MaskCharNow
                  fi == MaskStringFirst(InS, n, c)
                  la == MaskStringLast(InS, n, c)
                  co == MaskStringCorners(InS, n, m, c)
              IN  /\ fi.ok /\ fi.s = ExpFirst(InS, n, c[1])
                  /\ la.ok /\ la.s = ExpLast(InS, n, c[1])
                  /\ co.ok /\ co.s = ExpCorners(InS, n, m, c[1])
                  /\ Len(InS) <= n => (fi.s = Rep(c, Len(InS)) /\ la.s = Rep(c, Len(InS)))
                  /\ Len(InS) <= n + m => co.s = Rep(c, Len(InS))
                  /\ Len(fi.s) = Len(InS) /\ Len(la.s) = Len(InS) /\ Len(co.s) = Len(InS)
    /\ ParsedCall({<<"first">>, <<"last">>, <<"corners">>}) =>
          /\ call.ok
          /\ OutS = Expected(Method(tags.dir), InS, ParsedBounds[tags.dir][1],
                             ParsedBounds[tags.dir][2], MaskCharNow[1])
          /\ Len(OutS) = Len(InS)

\* C15 witness: corners with the bounds 0 and 2, and corners with bounds
\* that exceed the length, have masked a string of three characters.
C15_Witness ==
    /\ ParsedCall({<<"corners">>}) /\ call.ok
    /\ InS = <<"a", "b", "c">>
    /\ \/ tags.dir = <<"corners", ",", "0", "-", "2">> /\ OutS = <<"a", "*", "*">>
       \/ tags.dir = <<"corners", ",", "9", "-", "9">> /\ OutS = <<"*", "*", "*">>

\* C16 (as claimed): between.  MaskAllExceptCorners yields s[:n], the mask
\* character len(s)-n-m times and s[len(s)-m:] when len(s) > n+m, and the
\* mask character len(s) times when len(s) <= n+m.
C16_BetweenFullyMasked ==
    /\ (call.done /\ IsRecordRoot) =>
          \A n, m \in 0..(MaxLen + 1) :
              LET be == MaskAllExceptCorners(InS, n, m, MaskCharNow)
              IN  be.ok /\ be.s = ExpBetweenFull(InS, n, m, MaskCharNow[1])
    /\ ParsedCall({<<"between">>}) =>
          /\ call.ok
          /\ OutS = ExpBetweenFull(InS, ParsedBounds[tags.dir][1],
                                   ParsedBounds[tags.dir][2], MaskCharNow[1])

\* C16 (amended): between.  MaskAllExceptCorners yields s[:n], the mask
\* character len(s)-n-m times and s[len(s)-m:] when len(s) > n+m, and s
\* itself, unmasked, when len(s) <= n+m; a field whose tag gives the bounds
\* holds that result after MaskStruct.
C16_BetweenKeepsShort ==
    /\ (call.done /\ IsRecordRoot) =>
          \A n, m \in 0..(MaxLen + 1) :
              LET be == MaskAllExceptCorners(InS, n, m, MaskCharNow)
              IN  /\ be.ok /\ be.s = ExpBetween(InS, n, m, MaskCharNow[1])
                  /\ Len(InS) <= n + m => be.s = InS
    /\ ParsedCall({<<"between">>}) =>
          /\ call.ok
          /\ OutS = ExpBetween(InS, ParsedBounds[tags.dir][1],
                               ParsedBounds[tags.dir][2], MaskCharNow[1])

\* C16 witness: between with the bounds 2 and 2 has returned a string of
\* three characters as it is.
C16_Witness ==
    /\ ParsedCall({<<"between">>}) /\ call.ok
    /\ tags.dir = <<"between", ",", "2", "-", "2">>
    /\ InS = <<"a", "b", "c">>
    /\ OutS = <<"a", "b", "c">>

(***************************************************************************)
(* The examples of the README for the method first: the struct of the      *)
(* tests with Street string `mask:"first,5"` holding "Floresta", and       *)
(* Phone string `mask:"first"` holding "0998695861".                       *)
(***************************************************************************)
Floresta == <<"F", "l", "o", "r", "e", "s", "t", "a">>
Phone == <<"0", "9", "9", "8", "6", "9", "5", "8", "6", "1">>
DocTags ==
    { [dir |-> <<"first", ",", "5">>, mc |-> <<>>], [dir |-> <<"first">>, mc |-> <<>>] }
DocStrings == {Floresta, Phone}

InitDoc ==
    /\ maskerRegistry = NewMasker
    /\ lastRegistered = SixBuiltins
    /\ \E tg \in DocTags, form \in {"struct", "pointer"}, s \in DocStrings,
          present \in Presences :
          /\ tags = tg
          /\ LET r == Root(Types(tg.dir, tg.mc), form, s, present)
             IN  input = r.v /\ heap0 = r.h /\ heap = r.h
    /\ call = NoCall
    /\ Idle

SpecDoc == InitDoc /\ [][Next]_vars

\* A call on the struct whose fields are tagged "first,5" and hold
\* "Floresta", the built-in MaskFirst being registered under "first".
FlorestaCall ==
    /\ Returned /\ IsRecordRoot /\ Builtin
    /\ tags = [dir |-> <<"first", ",", "5">>, mc |-> <<>>]
    /\ InS = Floresta

OutStrings(p) ==
    LET o == Outcome(p)
    IN  IF o.v.t = "Level2"
        THEN << o.v.f[1].s, o.v.f[2].f[1].s, o.h[o.v.f[3].a].f[1].s >>
        ELSE << o.v.f[1].s >>

\* What strategy masker makes of the string the fields S hold.
MaskedBy(masker) == Mask(masker, RaceString, MaskCharNow, Split(tags.dir, ",")).s

\* The call of goroutine p has made all its lookups of a name that was
\* registered when it was entered, and has not panicked.
RacedCall(p) ==
    /\ Finished(p)
    /\ Outcome(p).st = "ok"
    /\ Method(tags.dir) \in DOMAIN job[p].reg0

\* C18: RegisterMasker during a MaskStruct call.  The call looks the name
\* up once for every string field, in declaration order, and every field
\* holds what the strategy registered under the name at the instant of the
\* field's own lookup yields: the result of S1 = MaskFirst or that of
\* S2 = MaskLast, never the original string; and when a field holds the
\* result of S2, every later field of the call holds the result of S2.
C18_PerFieldLookup ==
    \A p \in Procs :
        RacedCall(p) =>
            LET outs == OutStrings(p)
                name == Method(tags.dir)
            IN  /\ Len(job[p].seen) = Len(outs)
                /\ \A k \in 1..Len(outs) :
                      /\ name \in DOMAIN job[p].lasts[k]
                      /\ outs[k] = MaskedBy(job[p].lasts[k][name])
                      /\ outs[k] \in {MaskedBy("MaskFirst"), MaskedBy("MaskLast")}
                      /\ outs[k] # RaceString
                /\ \A i, k \in 1..Len(outs) :
                      (i < k /\ outs[i] = MaskedBy("MaskLast")
                             /\ MaskedBy("MaskLast") # MaskedBy("MaskFirst"))
                          => outs[k] = MaskedBy("MaskLast")

\* C18 witness: "first" was overwritten with MaskLast between the first
\* and the second lookup of a call on a Level2: its S is masked by
\* MaskFirst, its Nested.S and its Pointer.S by MaskLast.
C18_Witness ==
    \E p \in Procs :
        /\ RacedCall(p)
        /\ tags.dir = <<"first">>
        /\ job[p].reg0[<<"first">>] = "MaskFirst"
        /\ Len(OutStrings(p)) = 3
        /\ OutStrings(p)[1] = MaskedBy("MaskFirst")
        /\ OutStrings(p)[2] = MaskedBy("MaskLast")
        /\ OutStrings(p)[3] = MaskedBy("MaskLast")
        /\ MaskedBy("MaskLast") # MaskedBy("MaskFirst")

====
